---- MODULE Spec2Model ----
(***************************************************************************)
(* Model of src/node2vec/utils.py: the alias-method table construction,    *)
(* the node2vec p/q edge bias, the alias draw on the process-wide random   *)
(* generator, the random-walk path extension and the value codecs.         *)
(*                                                                         *)
(* Numbers: Python floats are modelled as exact rationals <<num, den>>     *)
(* with den > 0 in lowest terms, so every statement about probs is a       *)
(* statement in exact arithmetic (the floating tolerance is not modelled). *)
(* Python lists are sequences; list indices stay 0-based as in the source  *)
(* and are shifted by one only when a sequence is subscripted (At, Put).   *)
(***************************************************************************)
EXTENDS Integers, Sequences, FiniteSets, TLC

VARIABLES
    node_weights, bpc, alias, probs, underfull, overfull, iters, popped,
    eargs, eres,
    path, prev_path, calls, rng, drawn,
    tpc, targs, tpick, tres,
    cval, cop, cout

vars == <<node_weights, bpc, alias, probs, underfull, overfull, iters, popped,
          eargs, eres, path, prev_path, calls, rng, drawn,
          tpc, targs, tpick, tres, cval, cop, cout>>

buildVars == <<node_weights, bpc, alias, probs, underfull, overfull, iters, popped>>
edgeVars  == <<eargs, eres>>
pathVars  == <<path, prev_path, calls, drawn>>
thrVars   == <<tpc, targs, tpick, tres>>
codecVars == <<cval, cop, cout>>

\* what each operation leaves alone outside its own component
notBuild  == <<edgeVars, pathVars, rng, thrVars, codecVars>>
notEdge   == <<buildVars, pathVars, rng, thrVars, codecVars>>
notPath   == <<buildVars, edgeVars, thrVars, codecVars>>
notThread == <<buildVars, edgeVars, pathVars, codecVars>>
notCodec  == <<buildVars, edgeVars, pathVars, rng, thrVars>>

(* ---------------------------- bounds ----------------------------------- *)
MaxLen   == 4      \* longest weight list given to generate_alias_tables
MaxW     == 3      \* largest integer weight
MaxNode  == 2      \* node ids are 0..MaxNode
MaxDst   == 2      \* longest dst_neighbors list of the edge transform
MaxSrc   == 1      \* longest src_neighbors list of the edge transform
MaxEW    == 2      \* largest dst edge weight of the edge transform
MaxCalls == 3      \* number of RandomPath.append calls on one walk
MaxSeed  == 2      \* seeds are 0..MaxSeed
MaxCodec == 2      \* longest list inside a value given to the codecs

(* ------------------------ exact rationals ------------------------------ *)
Abs(x) == IF x < 0 THEN -x ELSE x

\* The arithmetic is written as functions, which TLC applies to evaluated
\* arguments, so that nested expressions are not evaluated repeatedly.
GCD[a \in Nat, b \in Nat] == IF b = 0 THEN a ELSE GCD[b, a % b]

\* the rational p[1]/p[2] (p[2] # 0) in lowest terms, denominator positive
Norm[p \in Int \X Int] ==
    LET g == GCD[Abs(p[1]), Abs(p[2])]
        s == IF p[2] < 0 THEN -1 ELSE 1
    IN  <<(s * p[1]) \div g, (s * p[2]) \div g>>

Rat(n, d)  == Norm[<<n, d>>]
RInt(k)    == <<k, 1>>
RZero      == RInt(0)
ROne       == RInt(1)

RatAdd[x \in Int \X Int, y \in Int \X Int] ==
    Rat(x[1] * y[2] + y[1] * x[2], x[2] * y[2])
RatSub[x \in Int \X Int, y \in Int \X Int] ==
    Rat(x[1] * y[2] - y[1] * x[2], x[2] * y[2])
RatMul[x \in Int \X Int, y \in Int \X Int] ==
    Rat(x[1] * y[1], x[2] * y[2])
RatDiv[x \in Int \X Int, y \in Int \X Int] ==
    Rat(x[1] * y[2], x[2] * y[1])
RatLt[x \in Int \X Int, y \in Int \X Int] == x[1] * y[2] < y[1] * x[2]

RAdd(x, y) == RatAdd[x, y]                        \* x + y
RSub(x, y) == RatSub[x, y]                        \* x - y
RMul(x, y) == RatMul[x, y]                        \* x * y
RDiv(x, y) == RatDiv[x, y]                        \* x / y, y # 0
RLt(x, y)  == RatLt[x, y]                         \* x < y
RLe(x, y)  == ~RatLt[y, x]                        \* x <= y

\* floor of a non-negative rational: Python's int() on a non-negative float
RFloor(x) == x[1] \div x[2]

(* ------------------------- list helpers -------------------------------- *)
At(s, i)     == s[i + 1]                                   \* s[i], 0-based
Put(s, i, v) == [s EXCEPT ![i + 1] = v]                    \* s[i] = v
Last(s)      == s[Len(s)]
Front(s)     == SubSeq(s, 1, Len(s) - 1)                   \* s after s.pop()
Range(s)     == {s[k] : k \in 1..Len(s)}
SeqsUpTo(S, m) == UNION {[1..k -> S] : k \in 0..m}

\* sum(s) of a list of numbers
SumTo[s \in Seq(Int \X Int), k \in Nat] ==
    IF k = 0 THEN RZero ELSE RAdd(SumTo[s, k - 1], s[k])
RSum(s) == SumTo[s, Len(s)]

(* --------------------- generate_alias_tables --------------------------- *)
\* lines 146-150: indices with probs < 1.0 in order, and the others in order
RECURSIVE Classify(_, _, _)
Classify(p, k, under) ==
    IF k = 0 THEN <<>>
    ELSE LET i == k - 1
             rest == Classify(p, k - 1, under)
         IN  IF RLt(At(p, i), ROne) = under THEN Append(rest, i) ELSE rest

\* variant: probs normalised by the sum instead of the average weight
SetupTables_BySum(w) ==
    LET n == Len(w) IN
    IF n = 0 THEN [status |-> "ZeroDivisionError"]
    ELSE LET total == RSum(w) IN
         IF total = RZero THEN [status |-> "ZeroDivisionError"]
         ELSE LET p == [k \in 1..n |-> RDiv(w[k], total)] IN
              [status    |-> "ok",
               alias     |-> [k \in 1..n |-> 0],
               probs     |-> p,
               underfull |-> Classify(p, n, TRUE),
               overfull  |-> Classify(p, n, FALSE)]

\* variant: an empty weight list yields empty tables instead of raising
SetupTables_EmptyOk(w) ==
    LET n == Len(w) IN
    IF n = 0 THEN [status |-> "ok", alias |-> <<>>, probs |-> <<>>,
                   underfull |-> <<>>, overfull |-> <<>>]
    ELSE LET avg_weight == RDiv(RSum(w), RInt(n)) IN
         IF avg_weight = RZero THEN [status |-> "ZeroDivisionError"]
         ELSE LET p == [k \in 1..n |-> RDiv(w[k], avg_weight)] IN
              [status    |-> "ok",
               alias     |-> [k \in 1..n |-> 0],
               probs     |-> p,
               underfull |-> Classify(p, n, TRUE),
               overfull  |-> Classify(p, n, FALSE)]

\* lines 140-150: the tables and worklists on entry to the pairing loop, or
\* the ZeroDivisionError of sum(node_weights) / n  and of  x / avg_weight
SetupTables(w) ==
    LET n == Len(w) IN
    IF n = 0 THEN [status |-> "ZeroDivisionError"]
    ELSE LET avg_weight == RDiv(RSum(w), RInt(n)) IN
         IF avg_weight = RZero THEN [status |-> "ZeroDivisionError"]
         ELSE LET p == [k \in 1..n |-> RDiv(w[k], avg_weight)] IN
              [status    |-> "ok",
               alias     |-> [k \in 1..n |-> 0],
               probs     |-> p,
               underfull |-> Classify(p, n, TRUE),
               overfull  |-> Classify(p, n, FALSE)]

\* line 152: the loop condition
LoopCond(st) == Len(st.underfull) > 0 /\ Len(st.overfull) > 0

\* variant: the donor keeps its whole mass (the "- 1.0" is dropped)
PairStep_NoSubtract(st) ==
    LET under == Last(st.underfull)
        over  == Last(st.overfull)
        uf    == Front(st.underfull)
        of    == Front(st.overfull)
        po    == RAdd(At(st.probs, over), At(st.probs, under))
    IN  [status    |-> "ok",
         alias     |-> Put(st.alias, under, over),
         probs     |-> Put(st.probs, over, po),
         underfull |-> IF RLt(po, ROne) THEN Append(uf, over) ELSE uf,
         overfull  |-> IF RLt(po, ROne) THEN of ELSE Append(of, over)]

\* variant: the alias is written at the donor instead of the receiver
PairStep_AliasOver(st) ==
    LET under == Last(st.underfull)
        over  == Last(st.overfull)
        uf    == Front(st.underfull)
        of    == Front(st.overfull)
        po    == RSub(RAdd(At(st.probs, over), At(st.probs, under)), ROne)
    IN  [status    |-> "ok",
         alias     |-> Put(st.alias, over, under),
         probs     |-> Put(st.probs, over, po),
         underfull |-> IF RLt(po, ROne) THEN Append(uf, over) ELSE uf,
         overfull  |-> IF RLt(po, ROne) THEN of ELSE Append(of, over)]

\* variant: the underfull index is read but not popped
PairStep_KeepUnder(st) ==
    LET under == Last(st.underfull)
        over  == Last(st.overfull)
        uf    == st.underfull
        of    == Front(st.overfull)
        po    == RSub(RAdd(At(st.probs, over), At(st.probs, under)), ROne)
    IN  [status    |-> "ok",
         alias     |-> Put(st.alias, under, over),
         probs     |-> Put(st.probs, over, po),
         underfull |-> IF RLt(po, ROne) THEN Append(uf, over) ELSE uf,
         overfull  |-> IF RLt(po, ROne) THEN of ELSE Append(of, over)]

\* lines 153-159: one iteration of the pairing loop
PairStep(st) ==
    LET under == Last(st.underfull)
        over  == Last(st.overfull)
        uf    == Front(st.underfull)
        of    == Front(st.overfull)
        po    == RSub(RAdd(At(st.probs, over), At(st.probs, under)), ROne)
    IN  [status    |-> "ok",
         alias     |-> Put(st.alias, under, over),
         probs     |-> Put(st.probs, over, po),
         underfull |-> IF RLt(po, ROne) THEN Append(uf, over) ELSE uf,
         overfull  |-> IF RLt(po, ROne) THEN of ELSE Append(of, over)]

RECURSIVE RunLoop(_)
RunLoop(st) == IF LoopCond(st) THEN RunLoop(PairStep(st)) ELSE st

\* lines 129-160: the returned pair (alias, probs), or the error raised
generate_alias_tables(w) ==
    LET st == SetupTables(w) IN
    IF st.status # "ok" THEN st
    ELSE LET fin == RunLoop(st) IN
         [status |-> "ok", alias |-> fin.alias, probs |-> fin.probs]

(* --------- generate_alias_tables, one loop iteration per step ---------- *)
WeightSeqs == SeqsUpTo({RInt(k) : k \in 0..MaxW}, MaxLen)

InitBuild ==
    /\ node_weights \in WeightSeqs
    /\ bpc = "call"
    /\ alias = <<>> /\ probs = <<>> /\ underfull = <<>> /\ overfull = <<>>
    /\ iters = 0 /\ popped = <<>>

\* the locals of generate_alias_tables inside the loop
CurTables ==
    [status |-> "ok", alias |-> alias, probs |-> probs,
     underfull |-> underfull, overfull |-> overfull]

\* lines 140-150
Setup ==
    /\ bpc = "call"
    /\ LET st == SetupTables(node_weights) IN
       IF st.status = "ok"
       THEN /\ bpc' = "loop"
            /\ alias' = st.alias /\ probs' = st.probs
            /\ underfull' = st.underfull /\ overfull' = st.overfull
       ELSE /\ bpc' = "raised"
            /\ UNCHANGED <<alias, probs, underfull, overfull>>
    /\ UNCHANGED <<node_weights, iters, popped>>
    /\ UNCHANGED notBuild

\* lines 152-159, loop condition true
Pair ==
    /\ bpc = "loop"
    /\ LoopCond(CurTables)
    /\ LET nx == PairStep(CurTables) IN
       /\ alias' = nx.alias /\ probs' = nx.probs
       /\ underfull' = nx.underfull /\ overfull' = nx.overfull
    /\ iters' = iters + 1
    /\ popped' = Append(popped, <<Last(underfull), Last(overfull)>>)
    /\ UNCHANGED <<node_weights, bpc>>
    /\ UNCHANGED notBuild

\* lines 152 and 160, loop condition false
Return ==
    /\ bpc = "loop"
    /\ ~LoopCond(CurTables)
    /\ bpc' = "returned"
    /\ UNCHANGED <<node_weights, alias, probs, underfull, overfull, iters, popped>>
    /\ UNCHANGED notBuild

(* ------------------- generate_edge_alias_tables ------------------------ *)
NodeIds == 0..MaxNode

\* lines 182-184: a neighbors tuple that fails the validation
InvalidNeighbors(nbs) == Len(nbs) # 2 \/ Len(nbs[1]) # Len(nbs[2])

\* variant: the membership test is made before the return test
BiasedWeight_MemberFirst(src_id, src_neighbor_ids, dst_neighbors, return_param, inout_param, k) ==
    LET dst_neighbor_id == dst_neighbors[1][k]
        weight          == dst_neighbors[2][k]
    IN  IF dst_neighbor_id \in src_neighbor_ids THEN weight
        ELSE IF dst_neighbor_id = src_id THEN RDiv(weight, return_param)
        ELSE RDiv(weight, inout_param)

\* lines 193-202: the biased weight of position k (1-based) of dst_neighbors
BiasedWeight(src_id, src_neighbor_ids, dst_neighbors, return_param, inout_param, k) ==
    LET dst_neighbor_id == dst_neighbors[1][k]
        weight          == dst_neighbors[2][k]
    IN  IF dst_neighbor_id = src_id THEN RDiv(weight, return_param)
        ELSE IF dst_neighbor_id \in src_neighbor_ids THEN weight
        ELSE RDiv(weight, inout_param)

\* lines 189-203: the list neighbors_dst
BiasedWeights(src_id, src_neighbors, dst_neighbors, return_param, inout_param) ==
    [k \in 1..Len(dst_neighbors[1]) |->
        BiasedWeight(src_id, Range(src_neighbors[1]), dst_neighbors,
                     return_param, inout_param, k)]

\* variant: the parameters are validated before the neighbors
generate_edge_alias_tables_ParamsFirst(src_id, src_neighbors, dst_neighbors, return_param, inout_param) ==
    IF return_param = RZero \/ inout_param = RZero
    THEN [status |-> "ValueError", msg |-> "Zero return or inout parameter"]
    ELSE IF InvalidNeighbors(src_neighbors) \/ InvalidNeighbors(dst_neighbors)
    THEN [status |-> "ValueError", msg |-> "Invalid neighbors tuple"]
    ELSE generate_alias_tables(
             BiasedWeights(src_id, src_neighbors, dst_neighbors,
                           return_param, inout_param))

\* lines 163-204
generate_edge_alias_tables(src_id, src_neighbors, dst_neighbors, return_param, inout_param) ==
    IF InvalidNeighbors(src_neighbors) \/ InvalidNeighbors(dst_neighbors)
    THEN [status |-> "ValueError", msg |-> "Invalid neighbors tuple"]
    ELSE IF return_param = RZero \/ inout_param = RZero
    THEN [status |-> "ValueError", msg |-> "Zero return or inout parameter"]
    ELSE generate_alias_tables(
             BiasedWeights(src_id, src_neighbors, dst_neighbors,
                           return_param, inout_param))

\* inputs: p is 0 or 2 and q is 0 or 1/2; a neighbors tuple is well-formed,
\* or has one weight more than ids
ReturnVals  == {RInt(0), RInt(2)}
InoutVals   == {RInt(0), Rat(1, 2)}
EdgeWeights == {RInt(k) : k \in 0..MaxEW}
Ones(n)     == [k \in 1..n |-> ROne]
SrcNbs == UNION {{<<ids, Ones(Len(ids))>>, <<ids, Ones(Len(ids) + 1)>>} :
                    ids \in SeqsUpTo(NodeIds, MaxSrc)}
DstNbs == UNION {{<<ids, w>> : w \in [1..Len(ids) -> EdgeWeights]}
                    \cup {<<ids, Ones(Len(ids) + 1)>>} :
                    ids \in SeqsUpTo(NodeIds, MaxDst)}
NoCall     == [status |-> "none"]

InitEdge ==
    /\ eargs \in [src_id : NodeIds, src_neighbors : SrcNbs, dst_neighbors : DstNbs,
                   return_param : ReturnVals, inout_param : InoutVals]
    /\ eres = NoCall

CallEdge ==
    /\ eres = NoCall
    /\ eres' = generate_edge_alias_tables(eargs.src_id, eargs.src_neighbors,
                    eargs.dst_neighbors, eargs.return_param, eargs.inout_param)
    /\ UNCHANGED eargs
    /\ UNCHANGED notEdge

(* -------------------- the process-wide random module ------------------- *)
\* The generator of the random module is one hidden state shared by every
\* caller in the process.  It is modelled as a full-period congruential
\* generator over RngMod states: random.random() advances the state and
\* returns state / RngMod, a value in [0, 1); random.seed(k) sets the state
\* to a function of k alone.
RngMod     == 8
RngStates  == 0..(RngMod - 1)
RngNext(s) == (5 * s + 3) % RngMod
RandomSeed(k)   == (3 * k + 1) % RngMod
RandomRandom(s) == [value |-> Rat(RngNext(s), RngMod), state |-> RngNext(s)]
None == -1                                  \* seed=None

(* ------------------------- AliasProb.draw_alias ------------------------ *)
\* line 75: pick = int(random.random() * len(self.alias))
PickIndex(r, tab) == RFloor(RMul(r, RInt(Len(tab.alias))))

\* lines 76-79 for a given pick and second random value r
PickNode(tab, nbs, pick, r) ==
    IF pick >= Len(tab.probs) THEN [status |-> "IndexError"]
    ELSE IF RLt(r, At(tab.probs, pick))
    THEN IF pick >= Len(nbs[1]) THEN [status |-> "IndexError"]
         ELSE [status |-> "ok", node |-> At(nbs[1], pick)]
    ELSE IF At(tab.alias, pick) >= Len(nbs[1]) THEN [status |-> "IndexError"]
         ELSE [status |-> "ok", node |-> At(nbs[1], At(tab.alias, pick))]

\* lines 73-79 run without interruption from generator state s: the outcome
\* and the generator state left behind
draw_alias(tab, nbs, seed, s) ==
    LET s0 == IF seed # None THEN RandomSeed(seed) ELSE s
        r1 == RandomRandom(s0)
        r2 == RandomRandom(r1.state)
    IN  [out |-> PickNode(tab, nbs, PickIndex(r1.value, tab), r2.value),
         state |-> r2.state]

(* ---------------------------- RandomPath ------------------------------- *)
\* lines 93-95
last_edge(p) == <<p[Len(p) - 1], p[Len(p)]>>

\* variant: the sentinel is kept on the first step
ExtendPath_KeepSentinel(p, next_vertex) == Append(p, next_vertex)

\* lines 118-125: the data of the returned RandomPath
ExtendPath(p, next_vertex) ==
    IF Len(p) = 2 /\ p[1] < 0 THEN <<p[2], next_vertex>>
    ELSE Append(p, next_vertex)

Seeds == {None} \cup 0..MaxSeed

\* well-formed neighbor lists of 1 or 2 nodes with positive weights
WalkNbs == {nb \in {<<ids, w>> : ids \in SeqsUpTo(NodeIds, 2),
                                 w \in SeqsUpTo({RInt(1), RInt(3)}, 2)} :
               Len(nb[1]) = Len(nb[2]) /\ Len(nb[1]) >= 1}

InitPath ==
    /\ path \in {<<sentinel, start>> : sentinel \in {-1, -2}, start \in NodeIds}
    /\ prev_path = <<>>
    /\ calls = 0
    /\ drawn = None
    /\ rng \in RngStates

\* lines 103-125: RandomPath.append, the walk holding the returned path
AppendCall ==
    /\ calls < MaxCalls
    /\ \E nbs \in WalkNbs, seed \in Seeds :
         LET d == draw_alias(generate_alias_tables(nbs[2]), nbs, seed, rng) IN
         /\ d.out.status = "ok"
         /\ path' = ExtendPath(path, d.out.node)
         /\ drawn' = d.out.node
         /\ rng' = d.state
    /\ prev_path' = path
    /\ calls' = calls + 1
    /\ UNCHANGED notPath

(* --------- draw_alias called from two threads of one process ----------- *)
\* Each random.seed / random.random call is atomic; the interpreter may
\* switch threads between any two of them.
Threads   == {1, 2}
ThreadNbs == {<< <<0, 1>>, <<RInt(1), RInt(3)>> >>,
              << <<2, 1>>, <<RInt(1), RInt(1)>> >>,
              << <<1, 2>>, <<RInt(3), RInt(1)>> >>}
TableOf(nbs) == generate_alias_tables(nbs[2])

InitThreads ==
    /\ targs \in [Threads -> [seed : Seeds, nbs : ThreadNbs]]
    /\ tpc = [t \in Threads |-> "seed"]
    /\ tpick = [t \in Threads |-> None]
    /\ tres = [t \in Threads |-> NoCall]
    /\ rng \in RngStates

\* lines 73-74
SeedStep(t) ==
    /\ tpc[t] = "seed"
    /\ rng' = IF targs[t].seed # None THEN RandomSeed(targs[t].seed) ELSE rng
    /\ tpc' = [tpc EXCEPT ![t] = "pick"]
    /\ UNCHANGED <<targs, tpick, tres>>
    /\ UNCHANGED notThread

\* line 75
PickStep(t) ==
    /\ tpc[t] = "pick"
    /\ LET r == RandomRandom(rng) IN
       /\ tpick' = [tpick EXCEPT ![t] = PickIndex(r.value, TableOf(targs[t].nbs))]
       /\ rng' = r.state
    /\ tpc' = [tpc EXCEPT ![t] = "cmp"]
    /\ UNCHANGED <<targs, tres>>
    /\ UNCHANGED notThread

\* lines 76-79
CmpStep(t) ==
    /\ tpc[t] = "cmp"
    /\ LET r == RandomRandom(rng) IN
       /\ tres' = [tres EXCEPT ![t] =
                     PickNode(TableOf(targs[t].nbs), targs[t].nbs, tpick[t], r.value)]
       /\ rng' = r.state
    /\ tpc' = [tpc EXCEPT ![t] = "done"]
    /\ UNCHANGED <<targs, tpick>>
    /\ UNCHANGED notThread

(* ------------------------------ codecs --------------------------------- *)
\* Python objects held in _data
PyInt(v)      == [t |-> "int", v |-> v]
PyFloat(r)    == [t |-> "float", n |-> r[1], d |-> r[2]]
PyList(items) == [t |-> "list", items |-> items]
PyTuple(items) == [t |-> "tuple", items |-> items]
PyStr(chars)  == [t |-> "str", chars |-> chars]
PyErr(name)   == [t |-> "error", name |-> name]

RECURSIVE Concat(_)
Concat(ss) == IF Len(ss) = 0 THEN <<>> ELSE Concat(Front(ss)) \o Last(ss)

\* pickle.dumps: the opcode stream of the pickle stack machine, one byte per
\* opcode.  Operand widths are shortened: a BININT1/BININT operand is one
\* byte, a BINFLOAT operand is the two bytes numerator, denominator.
OpPROTO == 128
OpSTOP == 46
OpBININT1 == 75
OpBININT == 74
OpBINFLOAT == 71
OpEMPTYLIST == 93
OpMARK == 40
OpAPPEND == 97
OpAPPENDS == 101
OpTUPLE2 == 134

RECURSIVE Save(_)
Save(o) ==
    IF o.t = "int"
    THEN IF o.v >= 0 THEN <<OpBININT1, o.v>> ELSE <<OpBININT, o.v + 256>>
    ELSE IF o.t = "float" THEN <<OpBINFLOAT, o.n, o.d>>
    ELSE IF o.t = "list"
    THEN LET body == Concat([k \in 1..Len(o.items) |-> Save(o.items[k])]) IN
         IF Len(o.items) = 0 THEN <<OpEMPTYLIST>>
         ELSE IF Len(o.items) = 1 THEN <<OpEMPTYLIST>> \o body \o <<OpAPPEND>>
         ELSE <<OpEMPTYLIST, OpMARK>> \o body \o <<OpAPPENDS>>
    ELSE Save(o.items[1]) \o Save(o.items[2]) \o <<OpTUPLE2>>

pickle_dumps(o) == <<OpPROTO, 4>> \o Save(o) \o <<OpSTOP>>

Mark == [t |-> "mark"]

\* position (1-based) of the topmost mark of the stack, 0 if none
RECURSIVE TopMark(_, _)
TopMark(stack, k) ==
    IF k = 0 THEN 0 ELSE IF stack[k].t = "mark" THEN k ELSE TopMark(stack, k - 1)

\* pickle.loads: the stack machine run from position pos
RECURSIVE Load(_, _, _)
Load(bs, pos, stack) ==
    IF pos > Len(bs) THEN PyErr("UnpicklingError")
    ELSE LET op == bs[pos] n == Len(stack) IN
    IF op = OpPROTO THEN Load(bs, pos + 2, stack)
    ELSE IF op = OpBININT1 THEN Load(bs, pos + 2, Append(stack, PyInt(bs[pos + 1])))
    ELSE IF op = OpBININT THEN Load(bs, pos + 2, Append(stack, PyInt(bs[pos + 1] - 256)))
    ELSE IF op = OpBINFLOAT
    THEN Load(bs, pos + 3, Append(stack, PyFloat(<<bs[pos + 1], bs[pos + 2]>>)))
    ELSE IF op = OpEMPTYLIST THEN Load(bs, pos + 1, Append(stack, PyList(<<>>)))
    ELSE IF op = OpMARK THEN Load(bs, pos + 1, Append(stack, Mark))
    ELSE IF op = OpAPPEND
    THEN Load(bs, pos + 1,
              Append(SubSeq(stack, 1, n - 2),
                     PyList(Append(stack[n - 1].items, stack[n]))))
    ELSE IF op = OpAPPENDS
    THEN LET m == TopMark(stack, n) IN
         Load(bs, pos + 1,
              Append(SubSeq(stack, 1, m - 2),
                     PyList(stack[m - 1].items \o SubSeq(stack, m + 1, n))))
    ELSE IF op = OpTUPLE2
    THEN Load(bs, pos + 1,
              Append(SubSeq(stack, 1, n - 2), PyTuple(<<stack[n - 1], stack[n]>>)))
    ELSE IF op = OpSTOP THEN stack[n]
    ELSE PyErr("UnpicklingError")

pickle_loads(bs) == Load(bs, 1, <<>>)

\* base64: three bytes become four 6-bit characters (a character is its
\* index 0..63 in the base64 alphabet, B64Pad is '=')
B64Pad == 64

RECURSIVE b64encode(_)
b64encode(bs) ==
    IF Len(bs) = 0 THEN <<>>
    ELSE IF Len(bs) = 1
    THEN LET v == bs[1] * 65536 IN
         <<v \div 262144, (v \div 4096) % 64, B64Pad, B64Pad>>
    ELSE IF Len(bs) = 2
    THEN LET v == bs[1] * 65536 + bs[2] * 256 IN
         <<v \div 262144, (v \div 4096) % 64, (v \div 64) % 64, B64Pad>>
    ELSE LET v == bs[1] * 65536 + bs[2] * 256 + bs[3] IN
         <<v \div 262144, (v \div 4096) % 64, (v \div 64) % 64, v % 64>>
             \o b64encode(SubSeq(bs, 4, Len(bs)))

RECURSIVE b64decode(_)
b64decode(cs) ==
    IF Len(cs) < 4 THEN <<>>
    ELSE LET c3 == IF cs[3] = B64Pad THEN 0 ELSE cs[3]
             c4 == IF cs[4] = B64Pad THEN 0 ELSE cs[4]
             v  == cs[1] * 262144 + cs[2] * 4096 + c3 * 64 + c4
             b  == <<v \div 65536, (v \div 256) % 256, v % 256>>
         IN  IF cs[3] = B64Pad THEN SubSeq(b, 1, 1)
             ELSE IF cs[4] = B64Pad THEN SubSeq(b, 1, 2)
             ELSE b \o b64decode(SubSeq(cs, 5, Len(cs)))

\* lines 32, 62, 98: serialize
serialize(data) == PyStr(b64encode(pickle_dumps(data)))

\* a pandas DataFrame: column names and the rows, one cell per column
DataFrame(columns, lists) ==
    IF \E k \in 1..Len(lists) : Len(lists[k].items) # Len(lists[1].items)
    THEN PyErr("ValueError")
    ELSE [t |-> "DataFrame", columns |-> columns,
          rows |-> [r \in 1..Len(lists[1].items) |->
                      [c \in 1..Len(lists) |-> lists[c].items[r]]]]

\* obj[name].tolist()
Column(df, name) ==
    IF \A c \in 1..Len(df.columns) : df.columns[c] # name THEN PyErr("KeyError")
    ELSE LET c == CHOOSE c \in 1..Len(df.columns) : df.columns[c] = name IN
         PyList([r \in 1..Len(df.rows) |-> df.rows[r][c]])

\* variant: the two columns are taken in the wrong order
FromColumns_Swapped(df, a, b) ==
    IF Column(df, a).t = "error" THEN Column(df, a)
    ELSE IF Column(df, b).t = "error" THEN Column(df, b)
    ELSE PyTuple(<<Column(df, b), Column(df, a)>>)

\* the tuple (obj[a].tolist(), obj[b].tolist())
FromColumns(df, a, b) ==
    IF Column(df, a).t = "error" THEN Column(df, a)
    ELSE IF Column(df, b).t = "error" THEN Column(df, b)
    ELSE PyTuple(<<Column(df, a), Column(df, b)>>)

\* lines 12-18: the _data of Neighbors(obj)
Neighbors(obj) ==
    IF obj.t = "str" THEN pickle_loads(b64decode(obj.chars))
    ELSE IF obj.t = "DataFrame" THEN FromColumns(obj, "dst", "weight")
    ELSE obj

\* lines 39-45: the _data of AliasProb(obj)
AliasProb(obj) ==
    IF obj.t = "str" THEN pickle_loads(b64decode(obj.chars))
    ELSE IF obj.t = "DataFrame" THEN FromColumns(obj, "alias", "probs")
    ELSE obj

\* lines 83-87: the _data of RandomPath(obj)
RandomPath(obj) ==
    IF obj.t = "str" THEN pickle_loads(b64decode(obj.chars))
    ELSE obj

Construct(cls, obj) ==
    IF cls = "Neighbors" THEN Neighbors(obj)
    ELSE IF cls = "AliasProb" THEN AliasProb(obj)
    ELSE RandomPath(obj)

\* lines 34-35: as_pandas, a method of Neighbors only
as_pandas(cls, data) ==
    IF cls = "Neighbors"
    THEN DataFrame(<<"dst", "weight">>, <<data.items[1], data.items[2]>>)
    ELSE PyErr("AttributeError")

IntLists(S, m)  == {PyList([k \in 1..Len(s) |-> PyInt(s[k])]) : s \in SeqsUpTo(S, m)}
FloatLists(m)   == {PyList([k \in 1..Len(s) |-> PyFloat(s[k])]) :
                       s \in SeqsUpTo({RInt(0), RInt(1), Rat(1, 2)}, m)}
PairValues(cls) == {[cls |-> cls, data |-> PyTuple(<<a, b>>)] :
                       a \in IntLists(NodeIds, MaxCodec), b \in FloatLists(MaxCodec)}
CodecValues ==
    {v \in PairValues("Neighbors") \cup PairValues("AliasProb") :
        Len(v.data.items[1].items) = Len(v.data.items[2].items)}
    \cup {[cls |-> "RandomPath", data |-> l] :
             l \in IntLists({-1} \cup NodeIds, MaxCodec + 1)}

InitCodec ==
    /\ cval \in CodecValues
    /\ cop = "none"
    /\ cout = PyErr("none")

\* v -> serialize() -> constructor on the string
EncodeDecode ==
    /\ cop = "none"
    /\ cop' = "codec"
    /\ cout' = Construct(cval.cls, serialize(cval.data))
    /\ UNCHANGED cval
    /\ UNCHANGED notCodec

\* v -> as_pandas() -> constructor on the DataFrame
RowsRoundTrip ==
    /\ cop = "none"
    /\ cop' = "rows"
    /\ LET df == as_pandas(cval.cls, cval.data) IN
       cout' = IF df.t = "error" THEN df ELSE Construct(cval.cls, df)
    /\ UNCHANGED cval
    /\ UNCHANGED notCodec

(* -------------------------- specifications ----------------------------- *)
IdleBuild ==
    /\ node_weights = <<>> /\ bpc = "idle"
    /\ alias = <<>> /\ probs = <<>> /\ underfull = <<>> /\ overfull = <<>>
    /\ iters = 0 /\ popped = <<>>
IdleEdge   == eargs = NoCall /\ eres = NoCall
IdlePath   == path = <<>> /\ prev_path = <<>> /\ calls = 0 /\ drawn = None
IdleThread == tpc = <<>> /\ targs = <<>> /\ tpick = <<>> /\ tres = <<>>
IdleCodec  == cval = NoCall /\ cop = "idle" /\ cout = NoCall

\* one call of generate_alias_tables, the pairing loop one iteration a step
InitB == InitBuild /\ IdleEdge /\ IdlePath /\ rng = 0 /\ IdleThread /\ IdleCodec
NextB == Setup \/ Pair \/ Return
SpecBuild == InitB /\ [][NextB]_vars
FairBuild == SpecBuild /\ WF_vars(NextB)

\* one call of generate_edge_alias_tables
InitE == IdleBuild /\ InitEdge /\ IdlePath /\ rng = 0 /\ IdleThread /\ IdleCodec
NextE == CallEdge
SpecEdge == InitE /\ [][NextE]_vars

\* one walk extended by successive RandomPath.append calls
InitP == IdleBuild /\ IdleEdge /\ InitPath /\ IdleThread /\ IdleCodec
NextP == AppendCall
SpecPath == InitP /\ [][NextP]_vars

\* two threads of one process, each inside one draw_alias call
InitT == IdleBuild /\ IdleEdge /\ IdlePath /\ InitThreads /\ IdleCodec
NextT == \E t \in Threads : SeedStep(t) \/ PickStep(t) \/ CmpStep(t)
SpecThreads == InitT /\ [][NextT]_vars

\* one value taken through one of its two round trips
InitC == IdleBuild /\ IdleEdge /\ IdlePath /\ rng = 0 /\ IdleThread /\ InitCodec
NextC == EncodeDecode \/ RowsRoundTrip
SpecCodec == InitC /\ [][NextC]_vars

(* ------------------------------ claims --------------------------------- *)
N == Len(node_weights)
PositiveSum == N >= 1 /\ RLt(RZero, RSum(node_weights))
PoppedUnder == {popped[k][1] : k \in 1..Len(popped)}

C2_ExactDistribution ==
    (bpc = "returned" /\ PositiveSum) =>
        LET S == RSum(node_weights)
            ids == [k \in 1..N |-> k - 1]
            tab == [alias |-> alias, probs |-> probs]
            Mass(i) == RSum([j \in 1..N |->
                          IF j - 1 = i
                          THEN RAdd(probs[j],
                                    IF alias[j] = i THEN RSub(ROne, probs[j]) ELSE RZero)
                          ELSE IF alias[j] = i THEN RSub(ROne, probs[j]) ELSE RZero])
            Hits(i) == Cardinality({c \in (0..(N - 1)) \X (0..(S[1] - 1)) :
                          PickNode(tab, <<ids, node_weights>>, c[1],
                                   Rat(c[2], S[1])) = [status |-> "ok", node |-> i]})
        IN  \A i \in 0..(N - 1) :
               /\ RDiv(Mass(i), RInt(N)) = RDiv(At(node_weights, i), S)
               /\ Hits(i) = N * At(node_weights, i)[1]

C2_Witness ==
    /\ bpc = "returned" /\ N >= 3 /\ iters >= 2
    /\ \E k \in 1..N : node_weights[k] = RZero
    /\ \E j, k \in 1..N : node_weights[j] # node_weights[k] /\ node_weights[j] # RZero
                             /\ node_weights[k] # RZero

\* C3: from the not-started path [sentinel, start], the first append returns
\* [start, x] without the sentinel, every later append returns the previous
\* path with exactly the drawn node appended, after k calls the path has
\* k + 1 entries, and last_edge is the edge from the previous end of the
\* walk to the drawn node, the final two entries of the path.
C3_PathGrowth ==
    calls >= 1 =>
        /\ Len(path) = calls + 1
        /\ calls = 1 => path = <<prev_path[2], drawn>>
        /\ calls > 1 => /\ Len(path) = Len(prev_path) + 1
                        /\ SubSeq(path, 1, Len(prev_path)) = prev_path
                        /\ path[Len(path)] = drawn
        /\ \A k \in 1..Len(path) : path[k] >= 0
        /\ last_edge(path) = <<path[Len(path) - 1], path[Len(path)]>>
        /\ last_edge(path) = <<prev_path[Len(prev_path)], drawn>>

C3_Witness == calls >= 3 /\ Len(path) = 4 /\ path[1] # path[2] /\ path[3] # path[4]

\* C4: with well-formed neighbors and non-zero p and q,
\* generate_edge_alias_tables returns generate_alias_tables of the weights
\* of dst_neighbors, in order, each divided by p when its id is src_id,
\* else kept when its id is among the ids of src_neighbors, else divided by
\* q; the return case wins when src_id is itself listed in src_neighbors.
C4_BiasRule ==
    LET src == eargs.src_neighbors
        dst == eargs.dst_neighbors
        expected == [k \in 1..Len(dst[1]) |->
                        IF dst[1][k] = eargs.src_id
                        THEN RDiv(dst[2][k], eargs.return_param)
                        ELSE IF \E j \in 1..Len(src[1]) : src[1][j] = dst[1][k]
                        THEN dst[2][k]
                        ELSE RDiv(dst[2][k], eargs.inout_param)]
    IN  (/\ eres # NoCall
         /\ Len(src[1]) = Len(src[2]) /\ Len(dst[1]) = Len(dst[2])
         /\ eargs.return_param # RZero /\ eargs.inout_param # RZero)
        => eres = generate_alias_tables(expected)

C4_Witness ==
    /\ eres # NoCall /\ eres.status = "ok"
    /\ eargs.return_param = RInt(2) /\ eargs.inout_param = Rat(1, 2)
    /\ eargs.src_neighbors[1] = <<eargs.src_id>>
    /\ Len(eargs.dst_neighbors[1]) = 2
    /\ eargs.dst_neighbors[1][1] = eargs.src_id
    /\ eargs.dst_neighbors[1][2] # eargs.src_id
    /\ eargs.dst_neighbors[2] = <<RInt(1), RInt(1)>>
    /\ eres.probs # <<ROne, ROne>>

\* C5 as stated: every call has exactly one of three outcomes: the
\* invalid-neighbors error when a neighbors value has lists of different
\* length, otherwise the invalid-bias-parameter error when p or q is zero,
\* otherwise a table; no error carries a table and the two errors are of
\* distinct kinds.
C5_ThreeOutcomes ==
    LET src == eargs.src_neighbors
        dst == eargs.dst_neighbors
        invalid == Len(src[1]) # Len(src[2]) \/ Len(dst[1]) # Len(dst[2])
        zero == eargs.return_param = RZero \/ eargs.inout_param = RZero
        invalidKind == generate_edge_alias_tables(0, << <<1, 2>>, <<Rat(1, 2)>> >>,
                           << <<>>, <<>> >>, ROne, ROne).status
        zeroKind == generate_edge_alias_tables(0, << <<>>, <<>> >>,
                           << <<>>, <<>> >>, RZero, ROne).status
    IN  eres # NoCall =>
          /\ invalid => eres.status = invalidKind /\ "alias" \notin DOMAIN eres
          /\ (~invalid /\ zero) => eres.status = zeroKind /\ "alias" \notin DOMAIN eres
          /\ (~invalid /\ ~zero) => eres.status = "ok"
          /\ invalidKind # zeroKind

\* C5 amended: every call has exactly one of four outcomes and no error
\* carries a table: ValueError (invalid neighbors tuple) when a neighbors
\* value has lists of different length; otherwise ValueError (zero return or
\* inout parameter) when p or q is zero; otherwise ZeroDivisionError when
\* the biased weights are empty or sum to zero; otherwise a table.  The two
\* validation errors are the same kind, ValueError, and differ by message.
C5_FourOutcomes ==
    LET src == eargs.src_neighbors
        dst == eargs.dst_neighbors
        invalid == Len(src[1]) # Len(src[2]) \/ Len(dst[1]) # Len(dst[2])
        zero == eargs.return_param = RZero \/ eargs.inout_param = RZero
        nosum == \/ Len(dst[1]) = 0
                 \/ RSum(BiasedWeights(eargs.src_id, src, dst,
                             eargs.return_param, eargs.inout_param)) = RZero
    IN  eres # NoCall =>
          /\ invalid =>
                eres = [status |-> "ValueError", msg |-> "Invalid neighbors tuple"]
          /\ (~invalid /\ zero) =>
                eres = [status |-> "ValueError", msg |-> "Zero return or inout parameter"]
          /\ (~invalid /\ ~zero /\ nosum) => eres = [status |-> "ZeroDivisionError"]
          /\ (~invalid /\ ~zero /\ ~nosum) =>
                /\ eres.status = "ok"
                /\ Len(eres.alias) = Len(dst[1]) /\ Len(eres.probs) = Len(dst[1])

C5_Witness ==
    /\ eres # NoCall /\ eres.status = "ValueError"
    /\ Len(eargs.dst_neighbors[1]) # Len(eargs.dst_neighbors[2])
    /\ eargs.return_param = RZero

\* C6 as stated: generate_alias_tables on the empty list raises its
\* empty-weights error (the ZeroDivisionError of sum / n) and returns no
\* table, and generate_edge_alias_tables raises the same whenever
\* dst_neighbors is well-formed and empty.
C6_EmptyDst ==
    LET empty == generate_alias_tables(<<>>) IN
    /\ empty = [status |-> "ZeroDivisionError"]
    /\ (eres # NoCall /\ eargs.dst_neighbors = << <<>>, <<>> >>) => eres = empty

\* C6 amended: generate_alias_tables on the empty list raises its
\* empty-weights error (the ZeroDivisionError of sum / n) and returns no
\* table, and generate_edge_alias_tables raises the same when dst_neighbors
\* is well-formed and empty, src_neighbors is well-formed and p and q are
\* non-zero; the validation errors of src_neighbors, p and q come first.
C6_EmptyDstValidCall ==
    LET empty == generate_alias_tables(<<>>)
        src == eargs.src_neighbors
    IN
    /\ empty = [status |-> "ZeroDivisionError"]
    /\ (/\ eres # NoCall /\ eargs.dst_neighbors = << <<>>, <<>> >>
        /\ Len(src[1]) = Len(src[2])
        /\ eargs.return_param # RZero /\ eargs.inout_param # RZero) => eres = empty
    /\ (/\ eres # NoCall /\ eargs.dst_neighbors = << <<>>, <<>> >>
        /\ (\/ Len(src[1]) # Len(src[2])
            \/ eargs.return_param = RZero \/ eargs.inout_param = RZero))
          => eres.status = "ValueError"

C6_Witness ==
    /\ eres = [status |-> "ZeroDivisionError"]
    /\ eargs.dst_neighbors = << <<>>, <<>> >>
    /\ Len(eargs.src_neighbors[1]) = 1

\* C7 as stated: for every Neighbors, AliasProb and RandomPath value both
\* round trips, through serialize() and the constructor and through the
\* row form and the constructor, exist and reproduce the value's data.
C7_BothRoundTrips == cop \in {"codec", "rows"} => cout = cval.data

\* C7 amended: for every Neighbors, AliasProb and RandomPath value the round
\* trip through serialize() and the constructor reproduces the data exactly;
\* the round trip through the row form exists and reproduces the data only
\* for Neighbors: AliasProb can be constructed from rows with the columns
\* alias and probs but has no as_pandas, and RandomPath has neither.
C7_RoundTrips ==
    /\ cop = "codec" => cout = cval.data
    /\ (cop = "rows" /\ cval.cls = "Neighbors") => cout = cval.data
    /\ (cop = "rows" /\ cval.cls # "Neighbors") => cout = PyErr("AttributeError")
    /\ (cop = "rows" /\ cval.cls = "AliasProb") =>
          AliasProb(DataFrame(<<"alias", "probs">>, cval.data.items)) = cval.data

C7_Witness ==
    /\ cop = "rows" /\ cval.cls = "Neighbors" /\ cout = cval.data
    /\ Len(cval.data.items[1].items) = 2
    /\ cval.data.items[1].items[1] # cval.data.items[1].items[2]
    /\ cval.data.items[2].items[1] # cval.data.items[2].items[2]

\* C8: a draw_alias call given a seed returns, under every interleaving with
\* another call in the same process, the node it returns when run alone
\* with that seed.
C8_SeedIsolation ==
    \A t \in Threads :
        (tpc[t] = "done" /\ targs[t].seed # None) =>
            tres[t] = draw_alias(TableOf(targs[t].nbs), targs[t].nbs,
                                 targs[t].seed, 0).out

C10_Bounded ==
    (PositiveSum /\ bpc \in {"loop", "returned"}) =>
        /\ Len(underfull) + Len(overfull) = N - iters
        /\ iters <= N - 1
        /\ \A j, k \in 1..Len(popped) : popped[j][1] = popped[k][1] => j = k
        /\ bpc = "returned" => (Len(underfull) = 0 \/ Len(overfull) = 0)

\* C10: the bounds above hold throughout and, the loop being scheduled
\* until its condition fails, every call on weights of length n >= 1 with a
\* positive sum returns.
C10_Terminates ==
    /\ []C10_Bounded
    /\ (PositiveSum /\ bpc = "call") ~> (bpc = "returned")

C10_Witness == bpc = "returned" /\ N >= 3 /\ iters = N - 1 /\ Len(overfull) = 1

====
